---------------------------- MODULE Spec2Model ----------------------------
(***************************************************************************)
(* Lead nurturing engine (lead_nurturer.py) driven by the remote-control   *)
(* server (mcp_server.py).                                                 *)
(*                                                                         *)
(* Time is counted in half days (UnitsPerDay units make one day), so that  *)
(* the whole-day floor of run_follow_up_sequence is a real computation.    *)
(* The processed-id list of the sync state is kept as the set of ids that  *)
(* the message source can still return (tracked) plus the number of older  *)
(* ids it holds that never come back in a query window (bulk): the code    *)
(* reads the list only through set(), so its order is not observable.      *)
(*                                                                         *)
(* Spec is the server with its requests, its background loop and the files *)
(* on disk; FairSpec adds the scheduling of the event loop, for a server   *)
(* started on a first run.  SchedSpec runs run_follow_up_sequence on its   *)
(* own, ReplySpec runs _process_response on its own and CycleSpec runs one *)
(* run_nurturing_cycle on its own, over every lead state and configuration *)
(* of a small domain.  ConfigSpec runs one cycle over every shape of the   *)
(* configuration file, RequestSpec is the server with all eight requests   *)
(* and the answers to the failed ones recorded, LoopSpec is start and stop *)
(* around one loop task more than Spec creates, and InboxSpec runs cycles  *)
(* over an inbox whose arrivals are timed, with polls that list what their *)
(* query selects.                                                          *)
(***************************************************************************)
EXTENDS Integers, Sequences, FiniteSets, TLC

\* ------------------------------------------------------------------ bounds
MaxLoops == 1        \* background loop tasks ever created
MaxCycles == 2       \* nurturing cycles ever started
MaxPages == 2        \* pages returned by one poll
MaxPageLen == 2      \* message ids on one page
MaxClock == 4        \* last instant of the clock, in half days
MaxFaults == 1       \* I/O calls that raise in one behaviour
MaxUpdates == 1      \* update_config requests in one behaviour
MaxSchedClock == 14  \* last instant of the clock when the scheduler runs on its own
MaxBodyLen == 2      \* pieces of text in the body of a reply
MaxReplies == 2      \* replies handed to _process_response on its own

\* ------------------------------------------------------- program constants
ProcessedIdsCap == 500
UnitsPerDay == 2
NoTime == -1         \* None, for last_contact and last_checked_iso
\* first instant of the clock: a day after the contact the tracking file records
StartClock == UnitsPerDay

Leads == {"a@x.com", "b@x.com"}
Msgs == {"m1", "m2", "m3"}
\* the pieces of text a body is made of
Words == {"demo", "stop", "hello", "not", "interested", "STOP"}
\* a keyword as an operator may type it into the configuration
CapitalWords == {"Demo"}

\* The inbox content the message source serves: sender and body of each id.
MsgFrom(m) ==
    CASE m = "m1" -> "a@x.com"
      [] m = "m2" -> "b@x.com"
      [] OTHER -> "stranger@y.com"

MsgBody(m) ==
    CASE m = "m1" -> <<"hello">>
      [] m = "m2" -> <<"demo", "stop">>
      [] OTHER -> <<"stop">>

Statuses == {"new", "contacted", "responded", "interested", "not_interested", "scheduled"}

\* @dataclass Lead, the tracked fields, with the dataclass defaults
NewLead ==
    [status |-> "new", last_contact |-> NoTime, response_count |-> 0,
     follow_up_count |-> 0, lead_score |-> 0, notes |-> <<>>]

\* datetime.isoformat(): the date part and the time-of-day part
IsoFormat(t) == <<t \div UnitsPerDay, t % UnitsPerDay>>

\* datetime.fromisoformat()
FromIsoFormat(s) == s[1] * UnitsPerDay + s[2]

\* mutant of TrackingData: the follow-up count is left out of the snapshot
TrackingDataNoFollowUp(ls) ==
    [e \in DOMAIN ls |->
        [status |-> ls[e].status,
         last_contact |-> IF ls[e].last_contact # NoTime
                          THEN IsoFormat(ls[e].last_contact) ELSE <<>>,
         response_count |-> ls[e].response_count,
         follow_up_count |-> 0,
         lead_score |-> ls[e].lead_score,
         notes |-> ls[e].notes]]

\* mutant of TrackingData: a lead never contacted is written with the epoch
\* as its last_contact
TrackingDataEpochForNull(ls) ==
    [e \in DOMAIN ls |->
        [status |-> ls[e].status,
         last_contact |-> IF ls[e].last_contact # NoTime
                          THEN IsoFormat(ls[e].last_contact) ELSE IsoFormat(0),
         response_count |-> ls[e].response_count,
         follow_up_count |-> ls[e].follow_up_count,
         lead_score |-> ls[e].lead_score,
         notes |-> ls[e].notes]]

\* mutant of TrackingData: only the leads that were contacted are written
TrackingDataContactedOnly(ls) ==
    [e \in {x \in DOMAIN ls : ls[x].last_contact # NoTime} |->
        [status |-> ls[e].status,
         last_contact |-> IsoFormat(ls[e].last_contact),
         response_count |-> ls[e].response_count,
         follow_up_count |-> ls[e].follow_up_count,
         lead_score |-> ls[e].lead_score,
         notes |-> ls[e].notes]]

\* _save_leads: the document written to lead_tracking.json
TrackingData(ls) ==
    [e \in DOMAIN ls |->
        [status |-> ls[e].status,
         last_contact |-> IF ls[e].last_contact # NoTime
                          THEN IsoFormat(ls[e].last_contact) ELSE <<>>,
         response_count |-> ls[e].response_count,
         follow_up_count |-> ls[e].follow_up_count,
         lead_score |-> ls[e].lead_score,
         notes |-> ls[e].notes]]

\* A file is Missing, Partial (opened for writing, content not complete) or
\* holds a complete document.
Missing == [file |-> "missing"]
Partial == [file |-> "partial"]
Doc(d) == [file |-> "doc", doc |-> d]

\* _load_leads: contacts.csv gives the keys, lead_tracking.json the fields of
\* the keys it holds.  Only FileNotFoundError is caught: a partial document
\* raises.
LoadLeadsFails(f) == f.file = "partial"

LoadLeads(f) ==
    IF f.file = "missing" THEN [e \in Leads |-> NewLead]
    ELSE [e \in Leads |->
            IF e \notin DOMAIN f.doc THEN NewLead
            ELSE [status |-> f.doc[e].status,
                  last_contact |-> IF f.doc[e].last_contact # <<>>
                                   THEN FromIsoFormat(f.doc[e].last_contact) ELSE NoTime,
                  response_count |-> f.doc[e].response_count,
                  follow_up_count |-> f.doc[e].follow_up_count,
                  lead_score |-> f.doc[e].lead_score,
                  notes |-> f.doc[e].notes]]

\* _load_sync_state: any exception gives the empty state
EmptySyncState == [last_checked_iso |-> <<>>, tracked |-> {}, bulk |-> 0]

LoadSyncState(f) == IF f.file = "doc" THEN f.doc ELSE EmptySyncState

\* len(processed_message_ids)
IdCount(s) == Cardinality(s.tracked) + s.bulk


\* ------------------------------------------------------------ configuration
\* nurturing_config.json, the keys the cycle reads; .get() defaults otherwise
\* response_keywords, the built-in lists: each keyword is a text, one piece
\* or several
InterestedWords == {<<"interested">>, <<"demo">>}
NotInterestedWords == {<<"not", "interested">>, <<"stop">>}
\* lead_scoring: the bonuses when the section does not give them
ResponseBonus == 10
InterestBonus == 5
NotInterestedPenalty == 5
NeutralBonus == 2

Configs ==
    [max_follow_ups : 1..3, followup_1_days : {1}, followup_2_days : {1},
     interested : {InterestedWords}, not_interested : {NotInterestedWords},
     response_bonus : {ResponseBonus}, interest_bonus : {InterestBonus},
     auto_respond_to_interest : {TRUE}, auto_send_follow_ups : {TRUE}]

\* The second argument of every .get(): the value a key has when the
\* document, its section or the key itself is absent
DefaultConfig ==
    [max_follow_ups |-> 2, followup_1_days |-> 3, followup_2_days |-> 7,
     interested |-> InterestedWords, not_interested |-> NotInterestedWords,
     response_bonus |-> ResponseBonus, interest_bonus |-> InterestBonus,
     auto_respond_to_interest |-> TRUE, auto_send_follow_ups |-> TRUE]

ConfigKeys == DOMAIN DefaultConfig

\* mutant of Effective: an absent key reads as the zero of its type
EffectiveZeroForAbsent(d) ==
    [k \in ConfigKeys |->
        IF k \in DOMAIN d THEN d[k]
        ELSE CASE k \in {"interested", "not_interested"} -> {}
               [] k \in {"auto_respond_to_interest", "auto_send_follow_ups"} -> FALSE
               [] OTHER -> 0]

\* What the reads of the cycle see of a document d that holds some of the
\* keys: self.config.get(section, {}).get(key, default)
Effective(d) ==
    [k \in ConfigKeys |-> IF k \in DOMAIN d THEN d[k] ELSE DefaultConfig[k]]

\* _load_config: any exception gives the empty configuration
LoadConfig(f) == IF f.file = "doc" THEN Effective(f.doc) ELSE Effective(<<>>)

\* ------------------------------------------------------------ reply handling
\* str.lower(), piece by piece
LowerWord(w) ==
    CASE w = "STOP" -> "stop"
      [] w = "Demo" -> "demo"
      [] OTHER -> w

Lower(body) == [i \in DOMAIN body |-> LowerWord(body[i])]

\* word in response_lower: the keyword occurs as a substring
Contains(text, word) ==
    \E i \in 1..(Len(text) - Len(word) + 1) :
        SubSeq(text, i, i + Len(word) - 1) = word

\* any(word in response_lower for word in words)
HasAny(body, words) == \E w \in words : Contains(Lower(body), w)

\* the branch of the if / elif / else of _process_response that a body takes
Classify(body, cfg) ==
    IF HasAny(body, cfg.interested) THEN "interested"
    ELSE IF HasAny(body, cfg.not_interested) THEN "not_interested"
    ELSE "neutral"

\* mutant of AckSends: the acknowledgment does not look at the configuration
AckSendsAlways(outcome, cfg) == IF outcome = "interested" THEN 1 ELSE 0

\* _process_response: the calls of _send_automated_response it makes for a
\* reply that took the branch outcome.  The call catches the error of its
\* send and returns, so that the lines after it run in either case.
AckSends(outcome, cfg) ==
    IF outcome = "interested" /\ cfg.auto_respond_to_interest THEN 1 ELSE 0

\* mutant of Scored: a reply without keywords marks the lead as responded
ScoredNeutralResponded(l, outcome, cfg) ==
    CASE outcome = "interested" ->
            [l EXCEPT !.status = "interested",
                      !.lead_score = @ + cfg.response_bonus + cfg.interest_bonus]
      [] outcome = "not_interested" ->
            [l EXCEPT !.status = "not_interested",
                      !.lead_score = @ - NotInterestedPenalty]
      [] OTHER -> [l EXCEPT !.status = "responded", !.lead_score = @ + NeutralBonus]

\* mutant of Scored: a lead that opted out keeps its status when it shows
\* interest later
ScoredRespectsOptOut(l, outcome, cfg) ==
    CASE outcome = "interested" ->
            [l EXCEPT !.status = IF @ = "not_interested" THEN @ ELSE "interested",
                      !.lead_score = @ + cfg.response_bonus + cfg.interest_bonus]
      [] outcome = "not_interested" ->
            [l EXCEPT !.status = "not_interested",
                      !.lead_score = @ - NotInterestedPenalty]
      [] OTHER -> [l EXCEPT !.lead_score = @ + NeutralBonus]

\* mutant of Scored: the score does not go below 0
ScoredFloored(l, outcome, cfg) ==
    CASE outcome = "interested" ->
            [l EXCEPT !.status = "interested",
                      !.lead_score = @ + cfg.response_bonus + cfg.interest_bonus]
      [] outcome = "not_interested" ->
            [l EXCEPT !.status = "not_interested",
                      !.lead_score = IF @ < NotInterestedPenalty THEN 0
                                     ELSE @ - NotInterestedPenalty]
      [] OTHER -> [l EXCEPT !.lead_score = @ + NeutralBonus]

\* the status and the score that the branch writes
Scored(l, outcome, cfg) ==
    CASE outcome = "interested" ->
            [l EXCEPT !.status = "interested",
                      !.lead_score = @ + cfg.response_bonus + cfg.interest_bonus]
      [] outcome = "not_interested" ->
            [l EXCEPT !.status = "not_interested",
                      !.lead_score = @ - NotInterestedPenalty]
      [] OTHER -> [l EXCEPT !.lead_score = @ + NeutralBonus]

\* mutant of ProcessReply: last_contact is the time of the first contact
ProcessReplyFirstContactOnly(l, body, subject, now, cfg) ==
    LET counted == [l EXCEPT !.response_count = @ + 1,
                             !.last_contact = IF @ = NoTime THEN now ELSE @]
        scored == Scored(counted, Classify(body, cfg), cfg)
    IN [scored EXCEPT !.notes = Append(@, <<now \div UnitsPerDay, subject>>)]

\* _process_response: the lead after one reply with this body and subject,
\* processed at time now
ProcessReply(l, body, subject, now, cfg) ==
    LET counted == [l EXCEPT !.response_count = @ + 1, !.last_contact = now]
        scored == Scored(counted, Classify(body, cfg), cfg)
    IN [scored EXCEPT !.notes = Append(@, <<now \div UnitsPerDay, subject>>)]

\* _process_response on message m of the inbox (its subject stands for it)
ProcessResponse(l, m, now, cfg) == ProcessReply(l, MsgBody(m), m, now, cfg)

\* The for-loop over one page of check_for_responses.  st carries the lead
\* map, the local processed_ids set and the bookkeeping of the poll; the
\* fetch of entry failAt raises (0: no fetch raises).
RECURSIVE ProcessPage(_, _, _, _, _, _)
ProcessPage(page, i, st, failAt, now, cfg) ==
    IF i > Len(page) \/ st.failed THEN st
    ELSE LET m == page[i] IN
         IF m \in st.tracked
         THEN ProcessPage(page, i + 1, st, failAt, now, cfg)
         ELSE IF i = failAt
         THEN [st EXCEPT !.failed = TRUE]
         ELSE IF MsgFrom(m) \in Leads
         THEN ProcessPage(page, i + 1,
                [st EXCEPT !.leads[MsgFrom(m)] = ProcessResponse(@, m, now, cfg),
                           !.tracked = @ \cup {m},
                           !.handled = Append(@, m)],
                failAt, now, cfg)
         ELSE ProcessPage(page, i + 1, st, failAt, now, cfg)

\* mutant of LatestIds: the list is never cut
LatestIdsUncut(ids) == {ids}

\* latest_ids = list(processed_ids); latest_ids[-500:].  The iteration order
\* of a set of strings is arbitrary, so any ids may be at the front of the
\* list and be cut: every way of keeping ProcessedIdsCap ids is an outcome.
LatestIds(ids) ==
    IF IdCount(ids) <= ProcessedIdsCap THEN {ids}
    ELSE LET excess == IdCount(ids) - ProcessedIdsCap IN
         {[tracked |-> ids.tracked \ d, bulk |-> ids.bulk - (excess - Cardinality(d))] :
             d \in {x \in SUBSET ids.tracked :
                        Cardinality(x) <= excess /\ excess - Cardinality(x) <= ids.bulk}}

\* ------------------------------------------------------ follow-up scheduler
\* mutant of DaysSince: a lapse of exactly n days counts as n - 1 days
DaysSinceStrict(now, t) == (now - t - 1) \div UnitsPerDay

\* (now - lead.last_contact).days
DaysSince(now, t) == (now - t) \div UnitsPerDay

\* mutant of FollowUpDue: the status of the lead is not looked at
FollowUpDueAnyStatus(l, now, cfg) ==
    IF cfg.auto_send_follow_ups /\ l.last_contact # NoTime
    THEN IF DaysSince(now, l.last_contact) >= cfg.followup_1_days /\ l.follow_up_count = 0
         THEN "followup_1"
         ELSE IF DaysSince(now, l.last_contact) >= cfg.followup_2_days /\ l.follow_up_count = 1
         THEN "followup_2"
         ELSE "none"
    ELSE "none"

\* mutant of FollowUpDue: a lead never contacted counts from the first instant
FollowUpDueNeverContacted(l, now, cfg) ==
    IF cfg.auto_send_follow_ups /\ l.status \in {"new", "contacted"}
    THEN LET since == IF l.last_contact # NoTime THEN l.last_contact ELSE 0 IN
         IF DaysSince(now, since) >= cfg.followup_1_days /\ l.follow_up_count = 0
         THEN "followup_1"
         ELSE IF DaysSince(now, since) >= cfg.followup_2_days /\ l.follow_up_count = 1
         THEN "followup_2"
         ELSE "none"
    ELSE "none"

\* Which template the loop body of run_follow_up_sequence sends to lead l
FollowUpDue(l, now, cfg) ==
    IF /\ cfg.auto_send_follow_ups
       /\ l.status \in {"new", "contacted"}
       /\ l.last_contact # NoTime
    THEN IF DaysSince(now, l.last_contact) >= cfg.followup_1_days /\ l.follow_up_count = 0
         THEN "followup_1"
         ELSE IF DaysSince(now, l.last_contact) >= cfg.followup_2_days /\ l.follow_up_count = 1
         THEN "followup_2"
         ELSE "none"
    ELSE "none"

\* mutant of FollowUpLead: the second follow-up does not close the lead
FollowUpLeadKeepsStatus(l, now, cfg) ==
    CASE FollowUpDue(l, now, cfg) = "followup_1" ->
            [l EXCEPT !.follow_up_count = 1, !.last_contact = now]
      [] FollowUpDue(l, now, cfg) = "followup_2" ->
            [l EXCEPT !.follow_up_count = 2, !.last_contact = now]
      [] OTHER -> l

\* mutant of FollowUpLead: the second branch is an if of its own, tried after
\* the first one
FollowUpLeadFallThrough(l, now, cfg) ==
    IF FollowUpDue(l, now, cfg) = "none" THEN l
    ELSE LET days == DaysSince(now, l.last_contact)
             l1 == IF days >= cfg.followup_1_days /\ l.follow_up_count = 0
                   THEN [l EXCEPT !.follow_up_count = 1, !.last_contact = now]
                   ELSE l
         IN IF days >= cfg.followup_2_days /\ l1.follow_up_count = 1
            THEN [l1 EXCEPT !.follow_up_count = 2, !.last_contact = now,
                            !.status = IF cfg.max_follow_ups <= 2
                                       THEN "not_interested" ELSE @]
            ELSE l1

\* The lead after the loop body of run_follow_up_sequence; the result of
\* _send_follow_up is not looked at (it catches the send error itself)
FollowUpLead(l, now, cfg) ==
    CASE FollowUpDue(l, now, cfg) = "followup_1" ->
            [l EXCEPT !.follow_up_count = 1, !.last_contact = now]
      [] FollowUpDue(l, now, cfg) = "followup_2" ->
            [l EXCEPT !.follow_up_count = 2, !.last_contact = now,
                      !.status = IF cfg.max_follow_ups <= 2 THEN "not_interested" ELSE @]
      [] OTHER -> l

\* -------------------------------------------------------------------- state
Req == 0                      \* the task of the request handler
\* the tasks created by start_nurturing: Spec creates MaxLoops of them, the
\* start and stop requests on their own one more
LoopIds == 1..(MaxLoops + 1)
Tasks == {Req} \cup LoopIds
NoTask == -1

VARIABLES
    clock,          \* datetime.now(), in half days
    nurturer,       \* ServerState.nurturer is set
    leads,          \* LeadNurturer.leads
    sync_state,     \* LeadNurturer.sync_state
    config,         \* LeadNurturer.config
    disk_leads,     \* lead_tracking.json
    disk_sync,      \* gmail_sync_state.json
    disk_config,    \* nurturing_config.json, its follow_up_schedule section
    updates,        \* update_config requests so far
    is_running,     \* ServerState.is_running
    total_runs,     \* ServerState.total_runs
    error_count,    \* ServerState.error_count
    pc,             \* position of every task
    running,        \* the task the event loop is executing, or NoTask
    local,          \* check_for_responses locals of every task
    cycles,         \* cycles started so far
    loops,          \* loop tasks created so far
    faults,         \* I/O calls that raised so far
    backoff,        \* backoff_seconds of every loop task, 0 outside the backoff sleep
    streak,         \* history: failed cycles of every loop task since its last good one
    classified,     \* history: calls of _process_response per message id
    recorded,       \* history: ids ever committed to processed_message_ids
    reclassified,   \* history: ids classified after they had been recorded
    adapterFailed,  \* history: a list or fetch call of the adapter raised
    capReached,     \* history: a poll ended with ProcessedIdsCap ids or more
    order,          \* history: tracked ids by insertion into processed_ids
    lastCut,        \* history: the last commit that cut the list
    cyc,            \* history: what the cycle of every task did
    run,            \* history: the last direct run of run_follow_up_sequence
    reply,          \* history: the last direct call of _process_response
    response,       \* history: the answer to the last request whose engine call
                    \* raised, where it is recorded
    arrival         \* history: when each message reached the inbox, where the
                    \* arrivals are recorded

engine == <<nurturer, leads, sync_state, config>>
disk == <<disk_leads, disk_sync>>
server == <<is_running, total_runs, error_count>>
sched == <<pc, running, local, cycles, loops>>

\* an I/O call (adapter, send, file) may raise
MayFail == faults < MaxFaults
Failed == faults' = faults + 1

retry == <<backoff, streak>>
settings == <<disk_config, updates>>
harness == <<run, reply, response, arrival>>
\* what no step of a cycle changes
ambient == <<clock, harness, settings>>
\* what no step of a cycle and no start or stop request changes, but for the
\* answer
quiet == <<clock, run, reply, arrival, settings>>

pollHistory == <<classified, recorded, reclassified, adapterFailed, capReached, order, lastCut>>
vars == <<clock, engine, disk, settings, server, sched, faults, retry, pollHistory, cyc,
          harness>>

NoLocal == [tracked |-> {}, bulk |-> 0, pages |-> 0]
NoCyc == [start |-> <<>>, pre |-> <<>>, replies |-> <<>>, due |-> {}, sendFailed |-> {},
          syncFailed |-> FALSE, cfg |-> <<>>]
NoRun == [at |-> NoTime, pre |-> <<>>, sent |-> <<>>, sendFailed |-> {},
          before |-> [at |-> NoTime, fresh |-> {}],
          reached |-> {}, final |-> [e \in Leads |-> NewLead]]
NoReply == [n |-> 0, pre |-> <<>>, start |-> <<>>, empty |-> FALSE, outcome |-> "none",
            both |-> FALSE, neutral |-> TRUE, acks |-> 0, ackFailed |-> FALSE]
\* no engine call of a request raised yet; NotRecorded where the answers are
\* left out
NoResponse == [op |-> "none", result |-> "none"]
NotRecorded == [op |-> "none", result |-> "not recorded"]
\* a message that has not reached the inbox
NotArrived == [at |-> NoTime, cycles |-> 0]
NoCut == [cut |-> FALSE, dropped |-> {}, kept |-> {}, bulk |-> 0, order |-> <<>>]

\* The files as the engine finds them when the server starts.
\*   fresh:     first run, no tracking file and no sync state
\*   contacted: the operator recorded the first outreach (day 0) in the
\*              tracking file; no poll has run yet
\*   longRun:   many polls have run: the id list is full, its newest id is
\*              m1, the reply of a@x.com that was processed on day 0
ContactedLeads ==
    [e \in Leads |->
        [NewLead EXCEPT !.status = IF e = "a@x.com" THEN "new" ELSE "contacted",
                        !.last_contact = 0]]

DefaultFollowUps == 2

InitFiles ==
    {[config |-> c, tracking |-> Missing, sync |-> Missing] :
        c \in {x \in Configs : x.max_follow_ups = DefaultFollowUps}}
    \cup
    {[config |-> c, tracking |-> Doc(TrackingData(ContactedLeads)), sync |-> Missing] :
        c \in {x \in Configs : x.max_follow_ups = DefaultFollowUps}}
    \cup
    {[config |-> c,
      tracking |-> Doc(TrackingData(
                     [ContactedLeads EXCEPT !["a@x.com"] = ProcessResponse(@, "m1", 0, c)])),
      sync |-> Doc([last_checked_iso |-> IsoFormat(0), tracked |-> {"m1"},
                    bulk |-> ProcessedIdsCap - 1])] :
        c \in {x \in Configs : x.max_follow_ups = DefaultFollowUps}}

\* The server process at its start, at instant now, over the three files;
\* no engine is constructed yet
Boot(now, tracking, sync, settingsFile) ==
    /\ clock = now
    /\ nurturer = FALSE
    /\ leads = [e \in Leads |-> NewLead]
    /\ sync_state = EmptySyncState
    /\ config = LoadConfig(settingsFile)
    /\ disk_leads = tracking
    /\ disk_sync = sync
    /\ disk_config = settingsFile
    /\ updates = 0
    /\ is_running = FALSE
    /\ total_runs = 0
    /\ error_count = 0
    /\ pc = [t \in Tasks |-> IF t = Req THEN "idle" ELSE "absent"]
    /\ running = NoTask
    /\ local = [t \in Tasks |-> NoLocal]
    /\ cycles = 0
    /\ loops = 0
    /\ faults = 0
    /\ backoff = [t \in LoopIds |-> 0]
    /\ streak = [t \in LoopIds |-> 0]
    /\ classified = [m \in Msgs |-> 0]
    /\ recorded = LoadSyncState(disk_sync).tracked
    /\ reclassified = {}
    /\ adapterFailed = FALSE
    /\ capReached = (IdCount(LoadSyncState(disk_sync)) >= ProcessedIdsCap)
    /\ order = IF LoadSyncState(disk_sync).tracked = {} THEN <<>> ELSE <<"m1">>
    /\ lastCut = NoCut
    /\ cyc = [t \in Tasks |-> NoCyc]
    /\ run = NoRun
    /\ reply = NoReply
    /\ arrival = [m \in Msgs |-> NotArrived]

Init ==
    /\ \E f \in InitFiles : Boot(StartClock, f.tracking, f.sync, Doc(f.config))
    /\ response = NotRecorded

\* ------------------------------------------------------------- event loop
CyclePcs == {"check", "commit", "sync_write", "follow", "save_open", "save_write", "report"}

\* mutant of Yields: the cycle awaits between its poll and its follow-ups
YieldsInCycle(p) == p \notin CyclePcs \/ p = "follow"

\* A coroutine gives the event loop back only where it awaits or returns.
\* run_nurturing_cycle is a plain synchronous call: no position inside it.
Yields(p) == p \notin CyclePcs

\* the event loop runs one task at a time, until that task yields
Schedulable(t) == running = NoTask \/ running = t

Holder(t, p) == IF Yields(p) THEN NoTask ELSE t

\* mutant of Result: the error of the engine call leaves the handler
ResultUncaught(raised) == IF raised THEN "raised" ELSE "text"

\* What a handler gives back: the CallToolResult of its last line, or the one
\* of its except clause when a call inside its try raised
Result(raised) == IF raised THEN "error_text" ELSE "text"

\* the handler of request op returns; the answer is kept when a call inside
\* the try raised
Answer(op, raised) ==
    response' = IF raised /\ response # NotRecorded
                THEN [op |-> op, result |-> Result(raised)]
                ELSE response

\* LeadNurturer(): the loads of the constructor
Construct ==
    /\ ~LoadLeadsFails(disk_leads)
    /\ nurturer' = TRUE
    /\ leads' = LoadLeads(disk_leads)
    /\ sync_state' = LoadSyncState(disk_sync)
    /\ config' = LoadConfig(disk_config)

\* entry of run_nurturing_cycle and of check_for_responses, up to the page loop
EnterCycle(t, ls, ss, cfg) ==
    /\ cycles' = cycles + 1
    /\ pc' = [pc EXCEPT ![t] = "check"]
    /\ running' = Holder(t, "check")
    /\ local' = [local EXCEPT ![t] = [tracked |-> ss.tracked, bulk |-> ss.bulk, pages |-> 0]]
    /\ cyc' = [cyc EXCEPT ![t] = [NoCyc EXCEPT !.start = ls,
                                               !.replies = [e \in Leads |-> 0],
                                               !.cfg = cfg]]

Min(a, b) == IF a <= b THEN a ELSE b

\* min(1800, 60 * (2 ** min(self.state.error_count, 5)))
BackoffBase == 60
BackoffCap == 1800
BackoffMaxExp == 5

BackoffSeconds(errors) == Min(BackoffCap, BackoffBase * 2 ^ Min(errors, BackoffMaxExp))

\* mutant of CycleError: the error of a cycle leaves the while loop
CycleErrorEndsLoop(t) ==
    /\ error_count' = error_count + 1
    /\ pc' = [pc EXCEPT ![t] = IF t = Req THEN "idle" ELSE "exited"]
    /\ running' = Holder(t, IF t = Req THEN "idle" ELSE "exited")
    /\ local' = [local EXCEPT ![t] = NoLocal]
    /\ cyc' = [cyc EXCEPT ![t] = NoCyc]
    /\ IF t = Req THEN Answer("run_single_cycle", TRUE) ELSE UNCHANGED response
    /\ UNCHANGED retry

\* the except clause of the caller of run_nurturing_cycle; the loop then
\* sleeps backoff_seconds
CycleError(t) ==
    /\ error_count' = error_count + 1
    /\ pc' = [pc EXCEPT ![t] = IF t = Req THEN "idle" ELSE "backoff"]
    /\ running' = Holder(t, IF t = Req THEN "idle" ELSE "backoff")
    /\ local' = [local EXCEPT ![t] = NoLocal]
    /\ cyc' = [cyc EXCEPT ![t] = NoCyc]
    /\ IF t = Req
       THEN /\ Answer("run_single_cycle", TRUE)
            /\ UNCHANGED retry
       ELSE /\ backoff' = [backoff EXCEPT ![t] = BackoffSeconds(error_count')]
            /\ streak' = [streak EXCEPT ![t] = @ + 1]
            /\ UNCHANGED response

\* ---------------------------------------------------------------- requests
\* start_nurturing: returns early when already running; a constructor that
\* raises leaves the state as it was; else the flag is set and a loop task is
\* created (at most limit of them in a behaviour)
Start(limit) ==
    /\ running = NoTask
    /\ \/ /\ is_running
          /\ Answer("start_nurturing", FALSE)
          /\ UNCHANGED <<engine, is_running, loops, pc>>
       \/ /\ ~is_running
          /\ LoadLeadsFails(disk_leads)
          /\ Answer("start_nurturing", TRUE)
          /\ UNCHANGED <<engine, is_running, loops, pc>>
       \/ /\ ~is_running
          /\ loops < limit
          /\ Construct
          /\ is_running' = TRUE
          /\ loops' = loops + 1
          /\ pc' = [pc EXCEPT ![loops + 1] = "top"]
          /\ Answer("start_nurturing", FALSE)
    /\ UNCHANGED <<quiet, retry, disk, total_runs, error_count, running, local, cycles,
                   faults, pollHistory, cyc>>

StartNurturing == Start(MaxLoops)

\* stop_nurturing: clears the flag, then _save_leads (open, then dump); an
\* error of the save is caught by the handler
StopNurturing ==
    /\ running = NoTask
    /\ is_running' = FALSE
    /\ IF nurturer
       THEN \E outcome \in {"saved", "open_fails", "dump_fails"} :
               /\ disk_leads' = CASE outcome = "saved" -> Doc(TrackingData(leads))
                                  [] outcome = "open_fails" -> disk_leads
                                  [] OTHER -> Partial
               /\ IF outcome = "saved" THEN UNCHANGED faults ELSE MayFail /\ Failed
               /\ Answer("stop_nurturing", outcome # "saved")
       ELSE /\ Answer("stop_nurturing", FALSE)
            /\ UNCHANGED <<disk_leads, faults>>
    /\ UNCHANGED <<quiet, retry, engine, disk_sync, total_runs, error_count, sched,
                   pollHistory, cyc>>

\* run_single_cycle, up to the page loop of check_for_responses
RunSingleCycle ==
    /\ running = NoTask
    /\ pc[Req] = "idle"
    /\ cycles < MaxCycles
    /\ IF nurturer
       THEN /\ EnterCycle(Req, leads, sync_state, config)
            /\ UNCHANGED <<engine, error_count, response>>
       ELSE \/ /\ Construct
               /\ EnterCycle(Req, leads', sync_state', config')
               /\ UNCHANGED <<error_count, response>>
            \/ /\ LoadLeadsFails(disk_leads)
               /\ cycles' = cycles + 1
               /\ error_count' = error_count + 1
               /\ Answer("run_single_cycle", TRUE)
               /\ UNCHANGED <<engine, pc, running, local, cyc>>
    /\ UNCHANGED <<quiet, retry, disk, is_running, total_runs, loops, faults, pollHistory>>

\* mutant of UpdateConfig: the request is served while a cycle is in progress
UpdateConfigAnyTime ==
    /\ updates < MaxUpdates
    /\ updates' = updates + 1
    /\ disk_config.file = "doc"
    /\ \E c \in Configs :
          /\ disk_config' = Doc(c)
          /\ config' = IF nurturer THEN c ELSE config
    /\ Answer("update_config", FALSE)
    /\ UNCHANGED <<clock, run, reply, arrival, nurturer, leads, sync_state, disk, server,
                   sched, faults, retry, pollHistory, cyc>>

\* update_config: reads the document, replaces the section by the one of the
\* request (dict.update), writes the document (open, then dump) and hands the
\* merged configuration to the engine (reload_config).  A document that does
\* not parse, or a write that raises, ends the request with an error text.
UpdateConfig ==
    /\ running = NoTask
    /\ updates < MaxUpdates
    /\ updates' = updates + 1
    /\ IF disk_config.file # "doc"
       THEN /\ Answer("update_config", TRUE)
            /\ UNCHANGED <<config, disk_config, faults>>
       ELSE \E c \in Configs, outcome \in {"saved", "open_fails", "dump_fails"} :
               /\ disk_config' = CASE outcome = "saved" -> Doc(c)
                                   [] outcome = "open_fails" -> disk_config
                                   [] OTHER -> Partial
               /\ config' = IF outcome = "saved" /\ nurturer THEN c ELSE config
               /\ IF outcome = "saved" THEN UNCHANGED faults ELSE MayFail /\ Failed
               /\ Answer("update_config", outcome # "saved")
    /\ UNCHANGED <<clock, run, reply, arrival, nurturer, leads, sync_state, disk, server,
                   sched, retry, pollHistory, cyc>>

\* get_status: only reads the server state and the leads in memory
GetStatus ==
    /\ running = NoTask
    /\ Answer("get_status", FALSE)
    /\ UNCHANGED <<quiet, engine, disk, server, sched, faults, retry, pollHistory, cyc>>

\* get_lead_report: builds the engine when there is none, then the report
GetLeadReport ==
    /\ running = NoTask
    /\ \/ /\ nurturer
          /\ Answer("get_lead_report", FALSE)
          /\ UNCHANGED engine
       \/ /\ ~nurturer
          /\ Construct
          /\ Answer("get_lead_report", FALSE)
       \/ /\ ~nurturer
          /\ LoadLeadsFails(disk_leads)
          /\ Answer("get_lead_report", TRUE)
          /\ UNCHANGED engine
    /\ UNCHANGED <<quiet, disk, server, sched, faults, retry, pollHistory, cyc>>

\* send_test_email: returns early without an address; else builds the engine
\* when there is none, then getProfile and send, which may raise
SendTestEmail ==
    /\ running = NoTask
    /\ \/ /\ Answer("send_test_email", FALSE)
          /\ UNCHANGED <<engine, faults>>
       \/ /\ ~nurturer
          /\ LoadLeadsFails(disk_leads)
          /\ Answer("send_test_email", TRUE)
          /\ UNCHANGED <<engine, faults>>
       \/ /\ IF nurturer THEN UNCHANGED engine ELSE Construct
          /\ \E sent \in BOOLEAN :
                /\ IF sent THEN UNCHANGED faults ELSE MayFail /\ Failed
                /\ Answer("send_test_email", ~sent)
    /\ UNCHANGED <<quiet, disk, server, sched, retry, pollHistory, cyc>>

\* get_logs: the log file is read, is not found (a text of its own), or the
\* read raises
GetLogs ==
    /\ running = NoTask
    /\ \E outcome \in {"read", "not_found", "raises"} :
          /\ IF outcome = "raises" THEN MayFail /\ Failed ELSE UNCHANGED faults
          /\ Answer("get_logs", outcome = "raises")
    /\ UNCHANGED <<quiet, engine, disk, server, sched, retry, pollHistory, cyc>>

\* ---------------------------------------------------------- background loop
\* mutant of LoopTop: the while test does not look at the running flag
LoopTopIgnoresFlag(t) ==
    /\ running = NoTask
    /\ pc[t] \in {"top", "sleep", "backoff"}
    /\ cycles < MaxCycles
    /\ nurturer
    /\ EnterCycle(t, leads, sync_state, config)
    /\ backoff' = [backoff EXCEPT ![t] = 0]
    /\ UNCHANGED <<ambient, streak, engine, disk, server, loops, faults, pollHistory>>

\* _nurturing_loop: the while test, after creation or after a sleep
LoopTop(t) ==
    /\ running = NoTask
    /\ pc[t] \in {"top", "sleep", "backoff"}
    /\ IF is_running
       THEN /\ cycles < MaxCycles
            /\ nurturer
            /\ EnterCycle(t, leads, sync_state, config)
       ELSE /\ pc' = [pc EXCEPT ![t] = "exited"]
            /\ UNCHANGED <<running, local, cycles, cyc>>
    /\ backoff' = [backoff EXCEPT ![t] = 0]
    /\ UNCHANGED <<ambient, streak, engine, disk, server, loops, faults, pollHistory>>

\* -------------------------------------------------------------- the cycle
Pages == UNION {[1..n -> Msgs] : n \in 0..MaxPageLen}

RECURSIVE Without(_, _)
Without(s, m) ==
    IF s = <<>> THEN <<>>
    ELSE IF Head(s) = m THEN Without(Tail(s), m)
    ELSE <<Head(s)>> \o Without(Tail(s), m)

RECURSIVE Inserted(_, _)
Inserted(ord, handled) ==
    IF handled = <<>> THEN ord
    ELSE Inserted(Append(Without(ord, Head(handled)), Head(handled)), Tail(handled))

Range(s) == {s[i] : i \in DOMAIN s}

\* mutant of AfterPage: the except clause of the poll goes on to the commit
AfterPageAlwaysCommits(failed, more) ==
    IF more /\ ~failed THEN "check" ELSE "commit"

\* Where check_for_responses goes after a page: to the except clause and out
\* of the poll when a call raised, to the next page when there is a
\* nextPageToken, and else out of the page loop to the commit
AfterPage(failed, more) ==
    IF failed THEN "follow"
    ELSE IF more THEN "check" ELSE "commit"

\* check_for_responses: one turn of the page loop (list, then the for-loop)
ListPage(t) ==
    /\ Schedulable(t)
    /\ pc[t] = "check"
    /\ \/ \* messages().list raises: the except clause ends the poll
          /\ MayFail /\ Failed
          /\ adapterFailed' = TRUE
          /\ pc' = [pc EXCEPT ![t] = AfterPage(TRUE, FALSE)]
          /\ running' = Holder(t, AfterPage(TRUE, FALSE))
          /\ UNCHANGED <<leads, local, classified, reclassified, order, cyc>>
       \/ \E page \in Pages, failAt \in 0..MaxPageLen, more \in BOOLEAN :
            LET st == ProcessPage(page, 1,
                        [leads |-> leads, tracked |-> local[t].tracked,
                         handled |-> <<>>, failed |-> FALSE], failAt, clock, config)
                next == AfterPage(st.failed, more)
            IN /\ failAt <= Len(page)
               /\ IF failAt > 0 THEN st.failed /\ MayFail /\ Failed ELSE UNCHANGED faults
               /\ more => local[t].pages + 1 < MaxPages
               /\ leads' = st.leads
               /\ local' = [local EXCEPT ![t].tracked = st.tracked,
                                         ![t].pages = @ + 1]
               /\ classified' = [m \in Msgs |->
                                   classified[m] + IF m \in Range(st.handled) THEN 1 ELSE 0]
               /\ reclassified' = reclassified \cup (Range(st.handled) \cap recorded)
               /\ order' = Inserted(order, st.handled)
               /\ adapterFailed' = (adapterFailed \/ st.failed)
               /\ cyc' = [cyc EXCEPT ![t].replies = [e \in Leads |->
                            @[e] + Cardinality({m \in Range(st.handled) : MsgFrom(m) = e})]]
               /\ pc' = [pc EXCEPT ![t] = next]
               /\ running' = Holder(t, next)
    /\ UNCHANGED <<ambient, retry, nurturer, sync_state, config, disk, server, cycles, loops,
                   recorded, capReached, lastCut>>

\* check_for_responses after the page loop: the watermark, the cut of the id
\* list, and the open() of _save_sync_state, which empties the file
Commit(t) ==
    /\ Schedulable(t)
    /\ pc[t] = "commit"
    /\ \E kept \in LatestIds([tracked |-> local[t].tracked, bulk |-> local[t].bulk]),
          opened \in BOOLEAN :
          /\ sync_state' = [last_checked_iso |-> IsoFormat(clock),
                            tracked |-> kept.tracked, bulk |-> kept.bulk]
          /\ recorded' = recorded \cup kept.tracked
          /\ capReached' = (capReached \/ IdCount(local[t]) >= ProcessedIdsCap)
          /\ lastCut' = IF IdCount(local[t]) > ProcessedIdsCap
                        THEN [cut |-> TRUE, dropped |-> local[t].tracked \ kept.tracked,
                              kept |-> kept.tracked, bulk |-> kept.bulk, order |-> order]
                        ELSE lastCut
          /\ IF opened THEN UNCHANGED faults ELSE MayFail /\ Failed
          /\ cyc' = [cyc EXCEPT ![t].syncFailed = ~opened]
          /\ disk_sync' = IF opened THEN Partial ELSE disk_sync
          /\ pc' = [pc EXCEPT ![t] = IF opened THEN "sync_write" ELSE "follow"]
          /\ running' = Holder(t, IF opened THEN "sync_write" ELSE "follow")
    /\ UNCHANGED <<ambient, retry, nurturer, leads, config, disk_leads, server, local, cycles,
                   loops, classified, reclassified, adapterFailed, order>>

\* _save_sync_state: json.dump into the opened file; an error is swallowed
SyncWrite(t) ==
    /\ Schedulable(t)
    /\ pc[t] = "sync_write"
    /\ \E written \in BOOLEAN :
          /\ IF written THEN UNCHANGED faults ELSE MayFail /\ Failed
          /\ cyc' = [cyc EXCEPT ![t].syncFailed = ~written]
          /\ disk_sync' = IF written THEN Doc(sync_state) ELSE disk_sync
    /\ pc' = [pc EXCEPT ![t] = "follow"]
    /\ running' = Holder(t, "follow")
    /\ UNCHANGED <<ambient, retry, engine, disk_leads, server, local, cycles, loops,
                   pollHistory>>

\* run_follow_up_sequence, over all leads; the sends to sendFails raise
\* inside _send_follow_up
FollowUp(t) ==
    /\ Schedulable(t)
    /\ pc[t] = "follow"
    /\ LET due == {e \in Leads : FollowUpDue(leads[e], clock, config) # "none"} IN
       \E sendFails \in SUBSET due :
          /\ IF sendFails = {} THEN UNCHANGED faults ELSE MayFail /\ Failed
          /\ leads' = [e \in Leads |-> FollowUpLead(leads[e], clock, config)]
          /\ cyc' = [cyc EXCEPT ![t].pre = leads, ![t].due = due,
                                ![t].sendFailed = sendFails]
    /\ pc' = [pc EXCEPT ![t] = "save_open"]
    /\ running' = Holder(t, "save_open")
    /\ UNCHANGED <<ambient, retry, nurturer, sync_state, config, disk, server, local, cycles,
                   loops, pollHistory>>

\* _save_leads: open(..., 'w') empties the file, or raises
SaveOpen(t) ==
    /\ Schedulable(t)
    /\ pc[t] = "save_open"
    /\ \/ /\ disk_leads' = Partial
          /\ pc' = [pc EXCEPT ![t] = "save_write"]
          /\ running' = Holder(t, "save_write")
          /\ UNCHANGED <<error_count, local, cyc, faults, retry, response>>
       \/ /\ MayFail /\ Failed
          /\ CycleError(t)
          /\ UNCHANGED disk_leads
    /\ UNCHANGED <<quiet, engine, disk_sync, is_running, total_runs, cycles, loops,
                   pollHistory>>

\* _save_leads: json.dump completes, or raises part-way
SaveWrite(t) ==
    /\ Schedulable(t)
    /\ pc[t] = "save_write"
    /\ \/ /\ disk_leads' = Doc(TrackingData(leads))
          /\ pc' = [pc EXCEPT ![t] = "report"]
          /\ running' = Holder(t, "report")
          /\ UNCHANGED <<error_count, local, cyc, faults, retry, response>>
       \/ /\ MayFail /\ Failed
          /\ CycleError(t)
          /\ UNCHANGED disk_leads
    /\ UNCHANGED <<quiet, engine, disk_sync, is_running, total_runs, cycles, loops,
                   pollHistory>>

\* generate_lead_report and the return of run_nurturing_cycle to its caller,
\* which counts the run; the loop then sleeps
Finish(t) ==
    /\ Schedulable(t)
    /\ pc[t] = "report"
    /\ total_runs' = total_runs + 1
    /\ pc' = [pc EXCEPT ![t] = IF t = Req THEN "idle" ELSE "sleep"]
    /\ running' = Holder(t, IF t = Req THEN "idle" ELSE "sleep")
    /\ local' = [local EXCEPT ![t] = NoLocal]
    /\ cyc' = [cyc EXCEPT ![t] = NoCyc]
    /\ streak' = IF t = Req THEN streak ELSE [streak EXCEPT ![t] = 0]
    /\ IF t = Req THEN Answer("run_single_cycle", FALSE) ELSE UNCHANGED response
    /\ UNCHANGED <<quiet, backoff, engine, disk, is_running, error_count, cycles, loops,
                   faults, pollHistory>>

\* time passes between the steps of the event loop, a day at a time (the
\* scheduler on its own is run at every half day)
TickSteps == {UnitsPerDay}

Tick ==
    /\ running = NoTask
    /\ \E d \in TickSteps :
          /\ clock + d <= MaxClock
          /\ clock' = clock + d
    /\ UNCHANGED <<engine, disk, settings, server, sched, faults, retry, pollHistory, cyc,
                   harness>>

Next ==
    \/ StartNurturing
    \/ StopNurturing
    \/ RunSingleCycle
    \/ UpdateConfig
    \/ Tick
    \/ \E t \in LoopIds : LoopTop(t)
    \/ \E t \in Tasks :
          \/ ListPage(t)
          \/ Commit(t)
          \/ SyncWrite(t)
          \/ FollowUp(t)
          \/ SaveOpen(t)
          \/ SaveWrite(t)
          \/ Finish(t)

Spec == Init /\ [][Next]_vars

\* The synchronous steps of a cycle of task t
CycleStep(t) ==
    \/ ListPage(t)
    \/ Commit(t)
    \/ SyncWrite(t)
    \/ FollowUp(t)
    \/ SaveOpen(t)
    \/ SaveWrite(t)
    \/ Finish(t)

\* The server started on a first run (no tracking file, no sync state), with
\* the scheduling of the event loop: synchronous code runs on, and a task
\* that sleeps in asyncio.sleep is woken up.
FairInit == Init /\ disk_leads = Missing

FairSpec ==
    /\ FairInit
    /\ [][Next]_vars
    /\ \A t \in Tasks : WF_vars(CycleStep(t))
    /\ \A t \in LoopIds : WF_vars(LoopTop(t))

\* -------------------------------------------------- the requests, answered
\* The server with its eight requests and its loop, the answers recorded; the
\* tracking file may be one that a write of an earlier process cut short.
RequestInit ==
    /\ \E tracking \in {Missing, Partial, Doc(TrackingData(ContactedLeads))} :
          Boot(StartClock, tracking, Missing, Doc(DefaultConfig))
    /\ response = NoResponse

RequestNext ==
    \/ StartNurturing
    \/ StopNurturing
    \/ RunSingleCycle
    \/ UpdateConfig
    \/ GetStatus
    \/ GetLeadReport
    \/ SendTestEmail
    \/ GetLogs
    \/ \E t \in LoopIds : LoopTop(t)
    \/ \E t \in Tasks : CycleStep(t)

RequestSpec == RequestInit /\ [][RequestNext]_vars

\* --------------------------------------------- start and stop on their own
\* start_nurturing and stop_nurturing requests around the loop tasks, on a
\* first run; one loop task more than in Spec may be created
StartAgain == Start(MaxLoops + 1)

LoopInit ==
    /\ Boot(StartClock, Missing, Missing, Doc(DefaultConfig))
    /\ response = NotRecorded

LoopNext ==
    \/ StartAgain
    \/ StopNurturing
    \/ \E t \in LoopIds : LoopTop(t) \/ CycleStep(t)

LoopSpec == LoopInit /\ [][LoopNext]_vars

\* ------------------------------------------------- the inbox and the query
\* Cycles of the run-once request over an inbox that replies reach at any
\* time, also while a poll is under way; the polls list what their query
\* selects.  The leads were contacted the day before and no poll has run.

\* the lower end of the query window of check_for_responses: after:<the
\* watermark of the last poll>, or newer_than:1d when there is none
WindowStart(ss, now) ==
    IF ss.last_checked_iso # <<>> THEN FromIsoFormat(ss.last_checked_iso)
    ELSE now - UnitsPerDay

\* messages().list(q=query): the messages in the inbox that the query selects
\* (a message that arrived at the very instant of an after: bound is taken as
\* selected)
Query(ss, now) ==
    {m \in Msgs : arrival[m] # NotArrived /\ arrival[m].at >= WindowStart(ss, now)}

\* the replies the leads may send
Replies == {m \in Msgs : MsgFrom(m) \in Leads}

\* a reply reaches the inbox
Arrive(m) ==
    /\ arrival[m] = NotArrived
    /\ arrival' = [arrival EXCEPT ![m] = [at |-> clock, cycles |-> cycles]]
    /\ UNCHANGED <<clock, engine, disk, settings, server, sched, faults, retry, pollHistory,
                   cyc, run, reply, response>>

\* time passes, between the steps of a poll as well
Elapse ==
    /\ clock < MaxClock
    /\ clock' = clock + 1
    /\ UNCHANGED <<engine, disk, settings, server, sched, faults, retry, pollHistory, cyc,
                   harness>>

\* check_for_responses: the page loop over the result of the query, which
\* fits one page; every listed message of a lead that is not in processed_ids
\* is handled, and no other
PollWindow(t) ==
    /\ ListPage(t)
    /\ faults' = faults
    /\ pc'[t] = "commit"
    /\ \A m \in Msgs :
          classified'[m] > classified[m]
              <=> /\ m \in Query(sync_state, clock)
                  /\ m \notin local[t].tracked
                  /\ MsgFrom(m) \in Leads

InboxInit ==
    /\ Boot(StartClock, Doc(TrackingData(ContactedLeads)), Missing, Doc(DefaultConfig))
    /\ response = NotRecorded

InboxNext ==
    \/ RunSingleCycle
    \/ \E m \in Replies : Arrive(m)
    \/ Elapse
    \/ PollWindow(Req)
    \/ Commit(Req)
    \/ SyncWrite(Req)
    \/ FollowUp(Req)
    \/ SaveOpen(Req)
    \/ SaveWrite(Req)
    \/ Finish(Req)

InboxSpec == InboxInit /\ [][InboxNext]_vars

\* ------------------------------------------------------------------ claims
InCycle == {t \in Tasks : pc[t] \in CyclePcs}

\* C1: with no adapter failure and fewer processed ids than the cap, a
\* message id that the source returns more than once is passed to
\* _process_response only once.
C1_ClassifiedOnce ==
    (~adapterFailed /\ ~capReached) => \A m \in Msgs : classified[m] <= 1

\* C2: an id that was once recorded in processed_message_ids is never
\* classified again, whatever commits and cuts of the list came between.
C2_NeverReclassified == reclassified = {}

\* C3: a lead whose follow-up send failed in run_follow_up_sequence keeps its
\* follow_up_count, last_contact and status, so the follow-up stays due.
C3_FailedSendNotMarked ==
    \A t \in Tasks :
        pc[t] = "save_open" =>
            \A e \in cyc[t].sendFailed :
                /\ leads[e].follow_up_count = cyc[t].pre[e].follow_up_count
                /\ leads[e].last_contact = cyc[t].pre[e].last_contact
                /\ leads[e].status = cyc[t].pre[e].status

\* C4: the scheduler never takes follow_up_count over the max_follow_ups of
\* the configuration it runs with, and the count grows, by exactly 1, only
\* in a cycle that sent this lead a follow-up.
C4_FollowUpsCapped ==
    \A t \in Tasks :
        pc[t] = "save_open" =>
            \A e \in Leads :
                leads[e].follow_up_count # cyc[t].pre[e].follow_up_count =>
                    /\ leads[e].follow_up_count <= config.max_follow_ups
                    /\ leads[e].follow_up_count = cyc[t].pre[e].follow_up_count + 1
                    /\ e \in cyc[t].due \ cyc[t].sendFailed

\* C5: a cycle of the background loop and a cycle of run_single_cycle are
\* never in progress at the same time.
C5_CyclesNeverOverlap == Cardinality(InCycle) <= 1

\* C5 witness: an on-demand cycle is in progress while the background loop
\* is alive, asleep between two of its own cycles.
C5_Witness ==
    /\ pc[Req] \in CyclePcs
    /\ is_running
    /\ \E t \in LoopIds : pc[t] = "sleep"

\* C6: when run_nurturing_cycle returns without error, lead_tracking.json
\* holds every field of every lead as the reply processing and the follow-up
\* decisions of that cycle left it.
C6_SnapshotHasTheCycle ==
    \A t \in Tasks :
        pc[t] = "report" =>
            /\ disk_leads.file = "doc"
            /\ LoadLeads(disk_leads) = leads
            /\ \A e \in Leads :
                  /\ disk_leads.doc[e].response_count =
                        cyc[t].start[e].response_count + cyc[t].replies[e]
                  /\ disk_leads.doc[e].follow_up_count =
                        IF e \in cyc[t].due THEN cyc[t].pre[e].follow_up_count + 1
                        ELSE cyc[t].pre[e].follow_up_count

\* C6 witness: a cycle that processed a reply and sent a follow-up returns.
C6_Witness ==
    \E t \in Tasks :
        /\ pc[t] = "report"
        /\ \E e \in Leads : cyc[t].replies[e] > 0
        /\ cyc[t].due # {}

\* C7: at every instant each persisted file holds a complete document, the
\* previous one or the new one, also when a save fails part-way.
C7_FilesAlwaysComplete == disk_leads # Partial /\ disk_sync # Partial

\* C8: a cycle in which the write of the sync state failed does not return
\* normally to its caller (it is an error of the cycle, not a completed run).
C8_WriteFailureSurfaced ==
    \A t \in Tasks : pc[t] = "report" => ~cyc[t].syncFailed

\* C9: processed_message_ids, in memory and as persisted, never has more
\* than 500 entries.
C9_IdListBounded ==
    /\ IdCount(sync_state) <= ProcessedIdsCap
    /\ disk_sync.file = "doc" => IdCount(disk_sync.doc) <= ProcessedIdsCap

\* C9 witness: a commit that had to cut the list has been persisted.
C9_Witness ==
    /\ lastCut.cut
    /\ disk_sync = Doc(sync_state)
    /\ IdCount(sync_state) = ProcessedIdsCap

Pos(ord, m) == CHOOSE i \in DOMAIN ord : ord[i] = m

\* C10: a commit that cuts the list drops the ids inserted first: no id is
\* dropped while an older one (the bulk is older than every tracked id) stays.
C10_CutIsFifo ==
    lastCut.cut =>
        /\ lastCut.dropped # {} => lastCut.bulk = 0
        /\ \A d \in lastCut.dropped, k \in lastCut.kept :
              Pos(lastCut.order, d) < Pos(lastCut.order, k)

\* C25: the notes of a lead only grow at their end: in every step, whether
\* it processes replies, runs the scheduler, saves or loads the lead map, the
\* notes before the step are a prefix of the notes after it.
C25_NotesAppendOnly ==
    [][\A e \in Leads :
          /\ Len(leads[e].notes) <= Len(leads'[e].notes)
          /\ SubSeq(leads'[e].notes, 1, Len(leads[e].notes)) = leads[e].notes]_vars

\* C26: the document that _save_leads writes for a lead map gives the same
\* lead map back when _load_leads reads it, field by field, a null
\* last_contact included; a new engine built from the snapshot of the old
\* one holds the leads of the old one.
C26_SaveLoadRoundTrip ==
    /\ [](nurturer => LoadLeads(Doc(TrackingData(leads))) = leads)
    /\ [](\A t \in 0..MaxClock : FromIsoFormat(IsoFormat(t)) = t)
    /\ [][(nurturer /\ loops' # loops /\ disk_leads = Doc(TrackingData(leads))) =>
            leads' = leads]_vars

\* C26 witness: start_nurturing has built a new engine from the snapshot that
\* a cycle of the old one saved, with a lead that replied and a lead that
\* was never contacted in it.
C26_Witness ==
    /\ loops > 0
    /\ \A t \in LoopIds : pc[t] \in {"absent", "top"}
    /\ total_runs > 0
    /\ disk_leads = Doc(TrackingData(leads))
    /\ \E e \in Leads : leads[e].last_contact = NoTime
    /\ \E e \in Leads : leads[e].notes # <<>> /\ leads[e].last_contact # NoTime

\* C27: a lead with no tracking record that sends no reply comes out of a
\* full cycle with status new and a null last_contact, is sent no
\* follow-up, and has a record in the snapshot with status new and zero
\* response_count, follow_up_count and lead_score.
C27_UntrackedLeadStaysNew ==
    \A t \in Tasks :
        pc[t] = "report" =>
            \A e \in Leads :
                (cyc[t].start[e] = NewLead /\ cyc[t].replies[e] = 0) =>
                    /\ leads[e].status = "new"
                    /\ leads[e].last_contact = NoTime
                    /\ e \notin cyc[t].due
                    /\ disk_leads.file = "doc"
                    /\ disk_leads.doc[e].status = "new"
                    /\ disk_leads.doc[e].last_contact = <<>>
                    /\ disk_leads.doc[e].response_count = 0
                    /\ disk_leads.doc[e].follow_up_count = 0
                    /\ disk_leads.doc[e].lead_score = 0

\* C27 witness: a first cycle, with no reply at all, has saved its snapshot.
C27_Witness ==
    \E t \in Tasks :
        /\ pc[t] = "report"
        /\ cyc[t].start = [e \in Leads |-> NewLead]
        /\ \A e \in Leads : cyc[t].replies[e] = 0
        /\ disk_leads.file = "doc"

\* C28: the sync state, in memory and on disk, changes only in the commit
\* that follows the page loop; the commit is entered only from a page that
\* was listed and fetched without error and has no next page; a list or
\* fetch call that raises ends the poll with no commit, so that the sync
\* state stays what it was before the poll to the end of the cycle.
C28_CursorCommittedAfterPages ==
    [][\A t \in Tasks :
          /\ pc[t] \in CyclePcs \ {"commit", "sync_write"} =>
                (sync_state' = sync_state /\ disk_sync' = disk_sync)
          /\ (pc[t] = "check" /\ faults' # faults) => pc'[t] = "follow"
          /\ (pc'[t] = "commit" /\ pc[t] # "commit") =>
                (pc[t] = "check" /\ faults' = faults)]_vars

\* C28 witness: on a first run the fetch of a message on the second page
\* raised after a reply of the first page had been processed; the sync
\* state is still the empty one and no file has been written.
C28_Witness ==
    \E t \in Tasks :
        /\ pc[t] = "follow"
        /\ adapterFailed
        /\ cycles = 1
        /\ local[t].pages = 2
        /\ \E m \in Msgs : classified[m] > 0
        /\ sync_state = EmptySyncState
        /\ disk_sync = Missing

\* ---------------------------------------------------------- reply claims
\* C21: after N replies in a row that hold no keyword of either list, the
\* lead_score is the score before the first of them plus 2 * N and the
\* status is the one before the first of them.
C21_NeutralAddsTwo ==
    (reply.n > 0 /\ reply.neutral) =>
        /\ leads["a@x.com"].lead_score = reply.start.lead_score + NeutralBonus * reply.n
        /\ leads["a@x.com"].status = reply.start.status

\* C21 witness: two neutral replies were processed for a lead that started
\* with a score of its own.
C21_Witness ==
    /\ reply.neutral
    /\ reply.n >= 2
    /\ reply.start.lead_score > 0

\* C22: a reply that takes the interested branch makes the lead interested,
\* whatever its status was, and adds response_bonus + interest_bonus of the
\* configuration to its score: 10 + 5 when the configuration gives none.
C22_InterestedScores ==
    (reply.n > 0 /\ reply.outcome = "interested") =>
        /\ leads["a@x.com"].status = "interested"
        /\ leads["a@x.com"].lead_score =
              reply.pre.lead_score + config.response_bonus + config.interest_bonus
        /\ config = DefaultConfig =>
              leads["a@x.com"].lead_score = reply.pre.lead_score + 15

\* C22 witness: a lead that was not_interested replied with interest, under
\* bonuses set by the operator.
C22_Witness ==
    /\ reply.n > 0
    /\ reply.outcome = "interested"
    /\ reply.pre.status = "not_interested"
    /\ config.response_bonus # ResponseBonus

\* C23: a reply that takes the not_interested branch makes the lead
\* not_interested, whatever its status was, and takes exactly 5 off its
\* score, below 0 if need be.
C23_NotInterestedScores ==
    (reply.n > 0 /\ reply.outcome = "not_interested") =>
        /\ leads["a@x.com"].status = "not_interested"
        /\ leads["a@x.com"].lead_score = reply.pre.lead_score - 5

\* C23 witness: an interested lead opted out and its score went below 0.
C23_Witness ==
    /\ reply.n > 0
    /\ reply.outcome = "not_interested"
    /\ reply.pre.status = "interested"
    /\ leads["a@x.com"].lead_score < 0

\* C24: every reply, whatever branch it takes, adds exactly 1 to
\* response_count, sets last_contact to the current time and appends
\* exactly one line to notes.
C24_ReplyAlwaysCounted ==
    reply.n > 0 =>
        /\ leads["a@x.com"].response_count = reply.pre.response_count + 1
        /\ leads["a@x.com"].last_contact = clock
        /\ Len(leads["a@x.com"].notes) = Len(reply.pre.notes) + 1
        /\ SubSeq(leads["a@x.com"].notes, 1, Len(reply.pre.notes)) = reply.pre.notes

\* C24 witness: a lead contacted earlier, with a note already, sent a reply
\* that took the not_interested branch.
C24_Witness ==
    /\ reply.n > 1
    /\ reply.pre.last_contact # NoTime
    /\ reply.start.last_contact # clock
    /\ reply.pre.notes # <<>>
    /\ reply.outcome = "not_interested"

\* C30: a reply with an empty body (none could be extracted) is not
\* classified: it changes neither the status nor the lead_score of the lead.
C30_EmptyBodySkipped ==
    (reply.n > 0 /\ reply.empty) =>
        /\ leads["a@x.com"].status = reply.pre.status
        /\ leads["a@x.com"].lead_score = reply.pre.lead_score

\* ------------------------------------------------- the scheduler on its own
\* An engine in memory, with no server activity around it.
EngineAlone(ls, cfg, now) ==
    /\ clock = now
    /\ nurturer = TRUE
    /\ leads = ls
    /\ sync_state = EmptySyncState
    /\ config = cfg
    /\ disk_leads = Missing
    /\ disk_sync = Missing
    /\ disk_config = Doc(cfg)
    /\ updates = 0
    /\ is_running = FALSE
    /\ total_runs = 0
    /\ error_count = 0
    /\ pc = [t \in Tasks |-> IF t = Req THEN "idle" ELSE "absent"]
    /\ running = NoTask
    /\ local = [t \in Tasks |-> NoLocal]
    /\ cycles = 0
    /\ loops = 0
    /\ faults = 0
    /\ backoff = [t \in LoopIds |-> 0]
    /\ streak = [t \in LoopIds |-> 0]
    /\ classified = [m \in Msgs |-> 0]
    /\ recorded = {}
    /\ reclassified = {}
    /\ adapterFailed = FALSE
    /\ capReached = FALSE
    /\ order = <<>>
    /\ lastCut = NoCut
    /\ cyc = [t \in Tasks |-> NoCyc]
    /\ run = NoRun
    /\ reply = NoReply
    /\ arrival = [m \in Msgs |-> NotArrived]
    /\ response = NotRecorded

\* follow_up_schedule sections: the default thresholds and thresholds of 0 days
SchedConfigs ==
    [max_follow_ups : 1..3, followup_1_days : {0, 3}, followup_2_days : {0, 7},
     interested : {InterestedWords}, not_interested : {NotInterestedWords},
     response_bonus : {ResponseBonus}, interest_bonus : {InterestBonus},
     auto_respond_to_interest : {TRUE}, auto_send_follow_ups : {TRUE}]

\* the lead the scheduler is given: any status, contacted on day 0 or never
SchedLeads ==
    {[NewLead EXCEPT !.status = st, !.last_contact = lc, !.follow_up_count = n] :
        st \in Statuses, lc \in {NoTime, 0}, n \in 0..2}

SchedInit ==
    \E l \in SchedLeads, c \in SchedConfigs :
        EngineAlone([e \in Leads |-> IF e = "a@x.com" THEN l ELSE NewLead], c, 0)

\* a new lead, not followed up yet, contacted exactly 3 days before now
ThreeDaysAgo(l, now) ==
    /\ l.status = "new"
    /\ l.follow_up_count = 0
    /\ l.last_contact # NoTime
    /\ now - l.last_contact = 3 * UnitsPerDay

\* run_follow_up_sequence called on the engine; the sends to sendFails raise
\* inside _send_follow_up
RunFollowUpSequence ==
    LET due == {e \in Leads : FollowUpDue(leads[e], clock, config) # "none"}
        post == [e \in Leads |-> FollowUpLead(leads[e], clock, config)]
        now2 == {e \in Leads : leads[e].follow_up_count # 2 /\ post[e].follow_up_count = 2}
    IN \E sendFails \in {{}, due} :
          /\ leads' = post
          /\ run' = [at |-> clock,
                      pre |-> leads,
                      sent |-> [e \in Leads |->
                                  IF e \in due
                                  THEN <<FollowUpDue(leads[e], clock, config)>> ELSE <<>>],
                      sendFailed |-> sendFails,
                      before |-> [at |-> run.at,
                                  fresh |-> IF run.at = NoTime THEN {}
                                            ELSE {e \in Leads : ThreeDaysAgo(run.pre[e], run.at)}],
                      reached |-> run.reached \cup now2,
                      final |-> [e \in Leads |->
                                   IF e \in now2 \ run.reached THEN post[e] ELSE run.final[e]]]
          /\ UNCHANGED <<clock, nurturer, sync_state, config, disk, settings, server, sched,
                         faults, retry, pollHistory, cyc, reply, response, arrival>>

\* time passes between two runs of the scheduler: the record of the last run
\* is kept only for a run that follows with no elapsed time
SchedTick ==
    /\ clock < MaxSchedClock
    /\ clock' = clock + 1
    /\ run' = [NoRun EXCEPT !.reached = run.reached, !.final = run.final]
    /\ UNCHANGED <<engine, disk, settings, server, sched, faults, retry, pollHistory, cyc,
                   reply, response, arrival>>

SchedNext == RunFollowUpSequence \/ SchedTick

SchedSpec == SchedInit /\ [][SchedNext]_vars

Terminal == {"responded", "interested", "not_interested", "scheduled"}

\* ------------------------------------------------ reply handling on its own
\* every body of at most MaxBodyLen pieces, the empty body included
Bodies == UNION {[1..n -> Words] : n \in 0..MaxBodyLen}

\* the lead that the reply comes from: any status, any of two scores
ReplyLeads ==
    {[NewLead EXCEPT !.status = st, !.lead_score = sc, !.last_contact = lc] :
        st \in Statuses, sc \in {0, 3}, lc \in {NoTime, 0}}

\* bonuses an operator may write into the lead_scoring section
OperatorBonuses == {[response_bonus |-> 1, interest_bonus |-> 0]}

\* response_keywords, lead_scoring and automation sections: the built-in
\* values, a keyword list of the operator with a capital letter in it, bonuses
\* of the operator, the acknowledgment switched off
ReplyConfigs ==
    {[DefaultConfig EXCEPT !.interested = w] :
        w \in {InterestedWords} \cup {{<<c>>} : c \in CapitalWords}}
    \cup
    {[DefaultConfig EXCEPT !.response_bonus = b.response_bonus,
                           !.interest_bonus = b.interest_bonus] : b \in OperatorBonuses}
    \cup
    {[DefaultConfig EXCEPT !.auto_respond_to_interest = FALSE]}

ReplyInit ==
    \E l \in ReplyLeads, c \in ReplyConfigs, now \in {0, StartClock + 1} :
        EngineAlone([e \in Leads |-> IF e = "a@x.com" THEN l ELSE NewLead], c, now)

\* _process_response called on the engine with a reply of a@x.com; the send
\* of the acknowledgment, when there is one, succeeds or raises
ProcessOneReply ==
    /\ reply.n < MaxReplies
    /\ \E body \in Bodies, sendFails \in BOOLEAN :
          /\ sendFails => AckSends(Classify(body, config), config) > 0
          /\ leads' = [leads EXCEPT !["a@x.com"] = ProcessReply(@, body, "re", clock, config)]
          /\ reply' = [n |-> reply.n + 1,
                       pre |-> leads["a@x.com"],
                       start |-> IF reply.n = 0 THEN leads["a@x.com"] ELSE reply.start,
                       empty |-> body = <<>>,
                       \* the branch this reply took
                       outcome |-> Classify(body, config),
                       \* the body holds a keyword of each list, in any letter case
                       both |-> /\ \E w \in config.interested :
                                      Contains(Lower(body), Lower(w))
                                /\ \E w \in config.not_interested :
                                      Contains(Lower(body), Lower(w)),
                       \* no reply so far held a keyword of either list, in any
                       \* letter case
                       neutral |-> reply.neutral /\
                                   ~\E w \in config.interested \cup config.not_interested :
                                       Contains(Lower(body), Lower(w)),
                       \* the sends of an acknowledgment this call attempted
                       acks |-> AckSends(Classify(body, config), config),
                       ackFailed |-> sendFails]
    /\ UNCHANGED <<clock, nurturer, sync_state, config, disk, settings, server, sched,
                   faults, retry, pollHistory, cyc, run, response, arrival>>

ReplyNext == ProcessOneReply

ReplySpec == ReplyInit /\ [][ReplyNext]_vars

\* ------------------------------------------------------ one cycle on its own
\* follow_up_schedule sections: the default thresholds and thresholds of 0 days
CycleConfigs ==
    {[DefaultConfig EXCEPT !.followup_1_days = d1, !.followup_2_days = d2] :
        d1 \in {0, 3}, d2 \in {0, 7}}

\* the lead that may reply in the cycle: any status, contacted on day 0 or
\* never, with no follow-up or one
CycleLeads ==
    {[NewLead EXCEPT !.status = st, !.last_contact = lc, !.follow_up_count = n] :
        st \in Statuses, lc \in {NoTime, 0}, n \in 0..1}

CycleInit ==
    \E l \in CycleLeads, c \in CycleConfigs :
        EngineAlone([e \in Leads |-> IF e = "a@x.com" THEN l ELSE NewLead], c, StartClock)

\* run_nurturing_cycle called once on the engine
OneCycle == cycles = 0 /\ RunSingleCycle

CycleNext == OneCycle \/ CycleStep(Req)

CycleSpec == CycleInit /\ [][CycleNext]_vars

\* -------------------------------------------- cycles over a partial document
\* a document written by an operator: no key has its default value
OperatorConfig ==
    [max_follow_ups |-> 1, followup_1_days |-> 1, followup_2_days |-> 1,
     interested |-> {<<"hello">>}, not_interested |-> {<<"demo">>},
     response_bonus |-> 1, interest_bonus |-> 0,
     auto_respond_to_interest |-> FALSE, auto_send_follow_ups |-> FALSE]

\* the keys of the sections of nurturing_config.json
Sections ==
    {{"max_follow_ups", "followup_1_days", "followup_2_days"},
     {"interested", "not_interested"},
     {"response_bonus", "interest_bonus"},
     {"auto_respond_to_interest", "auto_send_follow_ups"}}

\* the keys a document holds: none, one, all but one, all but a section, all
KeySets ==
    {{}, ConfigKeys}
    \cup {{k} : k \in ConfigKeys}
    \cup {ConfigKeys \ {k} : k \in ConfigKeys}
    \cup {ConfigKeys \ sec : sec \in Sections}

\* nurturing_config.json: absent, not parseable, or a document of some keys
ConfigFiles ==
    {Missing, Partial} \cup {Doc([k \in keys |-> OperatorConfig[k]]) : keys \in KeySets}

\* the tracking file: the first outreach of day 0, with no follow-up or one
OutreachLeads ==
    {[e \in Leads |-> [ContactedLeads[e] EXCEPT !.follow_up_count = n]] : n \in 0..1}

\* the server started 3 or 7 days after the outreach
ConfigInit ==
    /\ \E ls \in OutreachLeads, f \in ConfigFiles, day \in {3, 7} :
          Boot(day * UnitsPerDay, Doc(TrackingData(ls)), Missing, f)
    /\ response = NotRecorded

ConfigNext == OneCycle \/ CycleStep(Req)

ConfigSpec == ConfigInit /\ [][ConfigNext]_vars

\* C29: a lead of which the poll of a cycle processed a reply is sent no
\* follow-up by the scheduler of the same cycle, whatever its status and
\* whatever the thresholds of the configuration.
C29_RepliedLeadNotFollowedUp ==
    \A t \in Tasks :
        pc[t] = "save_open" =>
            \A e \in Leads : cyc[t].replies[e] > 0 => e \notin cyc[t].due

\* C11: with max_follow_ups = 2, the run in which follow_up_count reaches 2
\* leaves the lead not_interested, and every later run sends it nothing and
\* keeps its follow_up_count, last_contact and status.
C11_ExhaustedStaysPut ==
    config.max_follow_ups = 2 =>
        /\ run.at # NoTime =>
              \A e \in Leads :
                  (run.pre[e].follow_up_count # 2 /\ leads[e].follow_up_count = 2) =>
                      leads[e].status = "not_interested"
        /\ \A e \in run.reached :
              /\ leads[e].follow_up_count = run.final[e].follow_up_count
              /\ leads[e].last_contact = run.final[e].last_contact
              /\ leads[e].status = run.final[e].status
              /\ (run.at # NoTime /\ run.pre[e].follow_up_count = 2) => run.sent[e] = <<>>

\* C11 witness: the scheduler has run again, at a later time, on a lead whose
\* count had reached 2.
C11_Witness ==
    /\ config.max_follow_ups = 2
    /\ run.at # NoTime
    /\ \E e \in run.reached :
          /\ run.pre[e].follow_up_count = 2
          /\ run.at > run.final[e].last_contact

\* C12: whatever max_follow_ups is, the run in which follow_up_count becomes
\* equal to it sets the status to not_interested.
C12_ExhaustionForcesStatus ==
    run.at # NoTime =>
        \A e \in Leads :
            (run.pre[e].follow_up_count # leads[e].follow_up_count
                /\ leads[e].follow_up_count = config.max_follow_ups) =>
                    leads[e].status = "not_interested"

\* C13: with thresholds (3, 7), a new lead with no follow-up yet, contacted
\* exactly 3 days ago, is sent the first follow-up and only that: its count
\* becomes 1 and its last_contact now; a run that follows with no elapsed
\* time sends it nothing and changes none of its fields.
C13_ThirdDayFollowUp ==
    (config.followup_1_days = 3 /\ config.followup_2_days = 7 /\ run.at # NoTime) =>
        \A e \in Leads :
            /\ ThreeDaysAgo(run.pre[e], run.at) =>
                  /\ run.sent[e] = <<"followup_1">>
                  /\ leads[e].follow_up_count = 1
                  /\ leads[e].last_contact = run.at
            /\ (run.before.at # NoTime /\ e \in run.before.fresh) =>
                  /\ run.sent[e] = <<>>
                  /\ leads[e] = run.pre[e]

\* C13 witness: the second of two runs at the same time, the first of which
\* found the lead on its third day.
C13_Witness ==
    /\ config.followup_1_days = 3 /\ config.followup_2_days = 7
    /\ run.at # NoTime
    /\ run.before.at # NoTime
    /\ run.before.fresh # {}

\* C14: one run of the scheduler sends a lead at most one follow-up and adds
\* at most 1 to its follow_up_count, also with thresholds of 0 days.
C14_OneFollowUpPerRun ==
    run.at # NoTime =>
        \A e \in Leads :
            /\ Len(run.sent[e]) <= 1
            /\ leads[e].follow_up_count <= run.pre[e].follow_up_count + 1

\* C14 witness: with both thresholds at 0 days a lead with no follow-up yet
\* was sent one.
C14_Witness ==
    /\ config.followup_1_days = 0 /\ config.followup_2_days = 0
    /\ run.at # NoTime
    /\ \E e \in Leads : run.pre[e].follow_up_count = 0 /\ run.sent[e] # <<>>

\* C15: a run of the scheduler sends nothing to a lead that is responded,
\* interested, not_interested or scheduled, and changes none of its fields.
C15_TerminalLeadUntouched ==
    run.at # NoTime =>
        \A e \in Leads :
            run.pre[e].status \in Terminal =>
                /\ run.sent[e] = <<>>
                /\ leads[e] = run.pre[e]

\* C15 witness: the scheduler ran over a terminal lead whose last contact
\* and follow-up count would have made a follow-up due.
C15_Witness ==
    /\ run.at # NoTime
    /\ \E e \in Leads :
          /\ run.pre[e].status \in Terminal
          /\ run.pre[e].last_contact # NoTime
          /\ run.pre[e].follow_up_count = 1
          /\ DaysSince(run.at, run.pre[e].last_contact) >= config.followup_2_days

\* C20: a reply whose body holds an interested keyword and a not_interested
\* keyword, in any letter case, makes the lead interested and adds the two
\* bonuses to its score; the penalty is not applied.
C20_InterestedWins ==
    (reply.n > 0 /\ reply.both) =>
        /\ leads["a@x.com"].status = "interested"
        /\ leads["a@x.com"].lead_score =
              reply.pre.lead_score + config.response_bonus + config.interest_bonus

\* C16: the delay chosen after the k-th consecutive failed cycle of the loop
\* is min(1800, 60 * 2^(k-1)) seconds.
C16_BackoffDoubles ==
    \A t \in LoopIds :
        pc[t] = "backoff" =>
            backoff[t] = Min(BackoffCap, BackoffBase * 2 ^ (streak[t] - 1))

LoopWaits == {"top", "sleep", "backoff"}

\* C17: a cycle of the loop that raises leads to the backoff sleep, never out
\* of the loop; the sleep ends, and with the flag still set the loop then
\* starts another cycle (the loop is left only with the flag cleared).
C17_ErrorKeepsLoop ==
    /\ [][\A t \in LoopIds :
            /\ (pc[t] \in CyclePcs /\ pc'[t] \notin CyclePcs) => pc'[t] \in {"sleep", "backoff"}
            /\ (pc[t] = "backoff" /\ pc'[t] # "backoff") =>
                   IF is_running THEN pc'[t] = "check" ELSE pc'[t] = "exited"]_vars
    /\ \A t \in LoopIds :
          (pc[t] = "backoff") ~> (pc[t] \in {"check", "exited"} \/ cycles = MaxCycles)

\* C17 witness: the loop is in a cycle that it started after a failed one.
C17_Witness ==
    \E t \in LoopIds : pc[t] = "check" /\ streak[t] > 0 /\ is_running

\* C18: with the flag cleared the loop starts no cycle and, unless a start
\* sets the flag again, it exits; a cycle in progress is never cut short by
\* the flag: it goes on to its end or to its own error.
C18_StopEndsLoop ==
    /\ [][\A t \in LoopIds :
            /\ (pc[t] \notin CyclePcs /\ pc'[t] \in CyclePcs) => is_running
            /\ pc[t] \in CyclePcs => pc'[t] \in CyclePcs \cup {"sleep", "backoff"}]_vars
    /\ \A t \in LoopIds :
          (~is_running /\ pc[t] \in LoopWaits) ~> (pc[t] = "exited" \/ is_running)

\* C18 witness: a loop that ran a cycle has exited after a stop request.
C18_Witness ==
    \E t \in LoopIds : pc[t] = "exited" /\ ~is_running /\ total_runs > 0

\* C19: all through a cycle the engine's configuration is the one the cycle
\* started with; a reload is only seen by the next cycle.
C19_ConfigFixedInCycle ==
    \A t \in Tasks : pc[t] \in CyclePcs => config = cyc[t].cfg

\* C19 witness: a cycle runs under a configuration that update_config loaded
\* into the engine after an earlier cycle.
C19_Witness ==
    \E t \in Tasks :
        /\ pc[t] = "follow"
        /\ updates > 0
        /\ total_runs > 0
        /\ config.max_follow_ups # DefaultFollowUps

\* ------------------------------------------------------------- the report
\* generate_lead_report: the leads counted as contacted and as responded
ReportContacted(ls) == Cardinality({e \in DOMAIN ls : ls[e].status # "new"})

ReportResponded(ls) == Cardinality({e \in DOMAIN ls : ls[e].response_count > 0})

\* C40: the leads the report counts as responded (response_count > 0) are
\* never more than the leads it counts as contacted (status other than new),
\* so that the response rate it prints is at most 100 percent.
C40_RespondedWithinContacted ==
    nurturer => ReportResponded(leads) <= ReportContacted(leads)

\* ------------------------------------------------------- the silent lead
\* the largest threshold of SchedConfigs, in units of the clock
LongestWait == 7 * UnitsPerDay

\* C39: a lead with status new or contacted and a last_contact, which never
\* replies, is led to not_interested by the repeated runs of the scheduler,
\* for every max_follow_ups of 1 or more.  As a property of states: a lead
\* that is still open after a run sent it a follow-up has a further
\* follow-up to come once enough days have passed; a lead that has none
\* stays as it is in every later run.
C39_SilentLeadClosed ==
    \A e \in Leads :
        (/\ run.at # NoTime
         /\ run.sent[e] # <<>>
         /\ leads[e].status \in {"new", "contacted"})
        => FollowUpDue(leads[e], leads[e].last_contact + LongestWait, config) # "none"

\* ------------------------------------------------------ the acknowledgment
\* C32: a reply classified interested has one acknowledgment send attempted
\* when auto_respond_to_interest is on and none when it is off; whether the
\* send succeeds or raises, there is no second attempt and the status, the
\* score, the response count and the notes of the lead are updated alike.
C32_OneAcknowledgment ==
    (reply.n > 0 /\ reply.outcome = "interested") =>
        /\ reply.acks = IF config.auto_respond_to_interest THEN 1 ELSE 0
        /\ leads["a@x.com"].status = "interested"
        /\ leads["a@x.com"].lead_score =
              reply.pre.lead_score + config.response_bonus + config.interest_bonus
        /\ leads["a@x.com"].response_count = reply.pre.response_count + 1
        /\ leads["a@x.com"].notes =
              Append(reply.pre.notes, <<clock \div UnitsPerDay, "re">>)

\* C32 witness: the send of the acknowledgment of an interested reply raised.
C32_Witness ==
    /\ reply.n > 0
    /\ reply.outcome = "interested"
    /\ reply.acks = 1
    /\ reply.ackFailed

\* ------------------------------------------------------ absent settings
\* key k is not in the configuration document, or there is no document
Absent(k) == disk_config.file # "doc" \/ k \notin DOMAIN disk_config.doc

\* C31: when the configuration document, a section of it or a key is absent,
\* the cycle runs with the documented value for every absent key: thresholds
\* of 3 and 7 days, 2 follow-ups at most, bonuses of 10 and 5, the built-in
\* keyword lists, acknowledgments and follow-ups switched on; and a cycle
\* fails only when an I/O call raised.
C31_AbsentKeysDefault ==
    /\ \A t \in Tasks :
          pc[t] \in CyclePcs =>
             /\ Absent("followup_1_days") => cyc[t].cfg.followup_1_days = 3
             /\ Absent("followup_2_days") => cyc[t].cfg.followup_2_days = 7
             /\ Absent("max_follow_ups") => cyc[t].cfg.max_follow_ups = 2
             /\ Absent("response_bonus") => cyc[t].cfg.response_bonus = 10
             /\ Absent("interest_bonus") => cyc[t].cfg.interest_bonus = 5
             /\ Absent("interested") => cyc[t].cfg.interested = InterestedWords
             /\ Absent("not_interested") => cyc[t].cfg.not_interested = NotInterestedWords
             /\ Absent("auto_respond_to_interest") => cyc[t].cfg.auto_respond_to_interest
             /\ Absent("auto_send_follow_ups") => cyc[t].cfg.auto_send_follow_ups
             /\ config = cyc[t].cfg
    /\ error_count > 0 => faults > 0

\* C31 witness: with no thresholds in the document, the scheduler of a cycle
\* found a follow-up due on the third day.
C31_Witness ==
    \E t \in Tasks :
        /\ pc[t] = "save_open"
        /\ disk_config.file = "doc"
        /\ Absent("followup_1_days")
        /\ ~Absent("interested")
        /\ clock = 3 * UnitsPerDay
        /\ cyc[t].due # {}

\* ------------------------------------------------------ the lead map
\* C34: reply processing, the scheduler, the report and the saves remove no
\* lead: every step leaves the keys of the lead map as they are, and every
\* complete tracking document holds every lead of the map.
C34_NoLeadRemoved ==
    /\ [][DOMAIN leads' = DOMAIN leads]_vars
    /\ [](disk_leads.file = "doc" => DOMAIN disk_leads.doc = DOMAIN leads)

\* C34 witness: a cycle that processed a reply of one lead has written a
\* document that also holds the lead that was never contacted.
C34_Witness ==
    /\ total_runs > 0
    /\ disk_leads = Doc(TrackingData(leads))
    /\ leads["a@x.com"].response_count > 0
    /\ leads["b@x.com"] = NewLead

\* ------------------------------------------------ the two persisted files
\* the messages of lead e that were passed to _process_response
ClassifiedFrom(e) == {m \in Msgs : MsgFrom(m) = e /\ classified[m] > 0}

\* C35: when a poll was aborted by an adapter error after it had processed
\* replies, those replies are counted once in the tracking file, in that
\* cycle and in all later ones: the response_count the file holds for a lead
\* is at most the number of its messages that were processed.
C35_AbortedPollCountsOnce ==
    (adapterFailed /\ ~capReached /\ disk_leads.file = "doc") =>
        \A e \in Leads :
            disk_leads.doc[e].response_count <= Cardinality(ClassifiedFrom(e))

\* C36: whatever write failed, once no cycle is in progress an id that the
\* sync state file holds has its reply counted in the tracking file (a
\* tracking file cut short by its own write is left aside here).
C36_RecordedIdIsCounted ==
    (running = NoTask /\ disk_sync.file = "doc" /\ disk_leads.file # "partial") =>
        \A m \in disk_sync.doc.tracked :
            MsgFrom(m) \in Leads =>
                /\ disk_leads.file = "doc"
                /\ disk_leads.doc[MsgFrom(m)].response_count >= 1

\* ------------------------------------------------------ errors are caught
\* C33: each of the eight requests is answered with a text, also when the
\* engine call inside it raised; a cycle, failed or not, ends with its handler
\* returned or its loop asleep, and the request task is never anywhere else
\* than in a cycle or back at rest.
C33_RequestsAnswered ==
    /\ [](response.result \in {"none", "error_text"})
    /\ [](pc[Req] \in CyclePcs \cup {"idle"})
    /\ [][\A t \in Tasks :
            pc[t] \in CyclePcs =>
               pc'[t] \in CyclePcs \cup (IF t = Req THEN {"idle"} ELSE {"sleep", "backoff"})]_vars

\* C33 witness: while the loop sleeps after a cycle, the cycle of a run-once
\* request has raised and the request was answered.
C33_Witness ==
    /\ \E t \in LoopIds : pc[t] = "sleep"
    /\ pc[Req] = "idle"
    /\ error_count > 0
    /\ response = [op |-> "run_single_cycle", result |-> "error_text"]

\* --------------------------------------------------------- a single loop
\* the loop tasks that have begun to cycle and have not left their loop
Cycling == {t \in LoopIds : pc[t] \in CyclePcs \cup {"sleep", "backoff"}}

\* C37: whatever start and stop requests were made, at most one loop task is
\* cycling: a start request creates a loop task only when no earlier loop
\* task is still cycling, asleep between two of its cycles included.
C37_OneLoop == [][loops' > loops => Cycling = {}]_vars

\* ----------------------------------------------------- claims on the inbox
\* the replies of known leads that were in the inbox before cycle number n
\* of the behaviour started
ArrivedBefore(n) ==
    {m \in Replies : arrival[m] # NotArrived /\ arrival[m].cycles < n}

\* C38: every reply of a known lead that reaches the inbox, at whatever
\* moment, is classified by a later cycle that succeeds: once a cycle that
\* started after the arrival has completed, with no call having failed, the
\* reply has been passed to _process_response.
C38_ArrivedReplyClassified ==
    faults = 0 =>
        \A m \in ArrivedBefore(total_runs) : classified[m] > 0

=============================================================================
